---- MODULE Spec2Model ----
(***************************************************************************)
(* Model of tact: weight balancing and negative-weight treatment           *)
(* (src/tact/rootIO.py), tree reading, TH1 naming, response writing and    *)
(* the configuration overlay (src/tact/config.py).                         *)
(*                                                                         *)
(* Floating point numbers are modelled as exact rationals extended with    *)
(* the IEEE specials inf, -inf and nan, which is what numpy produces on a  *)
(* division by zero (a RuntimeWarning, never a ZeroDivisionError).         *)
(* Rounding is not modelled.                                               *)
(***************************************************************************)
EXTENDS Integers, Sequences, FiniteSets, TLC

\* ------------------------------------------------------------------ bounds
\* weights of the pure-function specifications are drawn from -MaxW..MaxW
MaxW == 2
\* and weight vectors have at most MaxLen elements
MaxLen == 3
\* a source file of the deduplication specification has at most MaxKeys keys
MaxKeys == 3

\* ----------------------------------------------------- numbers (numpy floats)
AbsInt(i) == IF i < 0 THEN -i ELSE i

RECURSIVE GCD(_, _)
GCD(a, b) == IF b = 0 THEN a ELSE GCD(b, a % b)

\* the finite number n/d (d # 0), in lowest terms with a positive denominator
Fin(n, d) ==
    LET g == GCD(AbsInt(n), AbsInt(d))
        s == IF d < 0 THEN -1 ELSE 1
    IN  [k |-> "fin", n |-> (s * n) \div g, d |-> AbsInt(d) \div g]

NaN  == [k |-> "nan",  n |-> 0, d |-> 1]
Inf  == [k |-> "inf",  n |-> 1, d |-> 1]
NInf == [k |-> "ninf", n |-> -1, d |-> 1]
Zero == Fin(0, 1)

IsFin(a) == a.k = "fin"
IsNaN(a) == a.k = "nan"
\* -1, 0, 1; meaningless for nan
Sgn(a) == IF a.n < 0 THEN -1 ELSE IF a.n > 0 THEN 1 ELSE 0
Signed(s) == IF s < 0 THEN NInf ELSE Inf

Add(a, b) ==
    IF IsNaN(a) \/ IsNaN(b) THEN NaN
    ELSE IF IsFin(a) /\ IsFin(b) THEN Fin(a.n * b.d + b.n * a.d, a.d * b.d)
    ELSE IF IsFin(a) THEN b
    ELSE IF IsFin(b) THEN a
    ELSE IF a.k = b.k THEN a ELSE NaN            \* inf + -inf

Mul(a, b) ==
    IF IsNaN(a) \/ IsNaN(b) THEN NaN
    ELSE IF IsFin(a) /\ IsFin(b) THEN Fin(a.n * b.n, a.d * b.d)
    ELSE IF Sgn(a) = 0 \/ Sgn(b) = 0 THEN NaN    \* 0 * inf
    ELSE Signed(Sgn(a) * Sgn(b))

\* operator.truediv on numpy scalars
Div(a, b) ==
    IF IsNaN(a) \/ IsNaN(b) THEN NaN
    ELSE IF IsFin(a) /\ IsFin(b)
         THEN IF b.n # 0 THEN Fin(a.n * b.d, a.d * b.n)
              ELSE IF a.n = 0 THEN NaN           \* 0 / 0
              ELSE Signed(Sgn(a))                \* x / 0
    ELSE IF IsFin(b) THEN Signed(Sgn(a) * (IF b.n < 0 THEN -1 ELSE 1))
    ELSE IF IsFin(a) THEN Zero
    ELSE NaN                                     \* inf / inf

NumAbs(a) ==
    IF IsNaN(a) THEN NaN
    ELSE IF IsFin(a) THEN Fin(AbsInt(a.n), a.d)
    ELSE Inf

Neg(a) ==
    IF IsNaN(a) THEN NaN
    ELSE IF IsFin(a) THEN Fin(-a.n, a.d)
    ELSE Signed(-Sgn(a))

\* a < b; every comparison with nan is False
Less(a, b) ==
    IF IsNaN(a) \/ IsNaN(b) THEN FALSE
    ELSE IF IsFin(a) /\ IsFin(b) THEN a.n * b.d < b.n * a.d
    ELSE IF a.k = b.k THEN FALSE
    ELSE a.k = "ninf" \/ b.k = "inf"

NumEq(a, b) == ~IsNaN(a) /\ ~IsNaN(b) /\ a = b
GreaterEq(a, b) == Less(b, a) \/ NumEq(a, b)

\* numpy.isclose defaults: rtol = 1e-05 = 1/RtolInv, atol = 1e-08 = 1/AtolInv
RtolInv == 100000
AtolInv == 100000000

\* numpy.isclose(a, b): |a - b| <= atol + rtol * |b| for finite a, b;
\* equal infinities are close, nan is close to nothing
IsClose(a, b) ==
    IF IsNaN(a) \/ IsNaN(b) THEN FALSE
    ELSE IF ~(IsFin(a) /\ IsFin(b)) THEN a = b
    ELSE LET diff == AbsInt(a.n * b.d - b.n * a.d)
             \* |a-b| <= 1/AtolInv + |b|/RtolInv, multiplied by a.d*b.d*AtolInv
             rhs  == a.d * (b.d + (AtolInv \div RtolInv) * AbsInt(b.n))
         IN  diff = 0 \/ diff <= rhs \div AtolInv

\* --------------------------------------------------------- weight vectors
Weights == (0 - MaxW)..MaxW

\* all sequences over S of length at most n
RECURSIVE SeqsUpTo(_, _)
SeqsUpTo(S, n) ==
    IF n = 0 THEN {<<>>}
    ELSE LET shorter == SeqsUpTo(S, n - 1)
         IN  shorter \cup {Append(s, x) : s \in {t \in shorter : Len(t) = n - 1}, x \in S}

\* a vector of integer weights as a vector of numbers
ToNums(iv) == [i \in 1..Len(iv) |-> Fin(iv[i], 1)]

Vectors == {ToNums(iv) : iv \in SeqsUpTo(Weights, MaxLen)}

\* the holder of a weight vector: a numpy array, or a pandas Series, whose
\* sum skips NaN
Containers == {"ndarray", "Series"}

RECURSIVE SumFrom(_, _, _)
SumFrom(w, i, skipna) ==
    IF i > Len(w) THEN Zero
    ELSE IF skipna /\ IsNaN(w[i]) THEN SumFrom(w, i + 1, skipna)
    ELSE Add(w[i], SumFrom(w, i + 1, skipna))

\* np.sum(w)
NpSum(w, container) == SumFrom(w, 1, container = "Series")

\* w * scale
Scaled(w, scale) == [i \in 1..Len(w) |-> Mul(w[i], scale)]

\* np.abs(w)
NpAbs(w) == [i \in 1..Len(w) |-> NumAbs(w[i])]

\* (w >= 0).all()
AllNonNegative(w) == \A i \in 1..Len(w) : GreaterEq(w[i], Zero)

\* ------------------------------------------------------- balance_weights
\* scale = truediv(*sorted([sum1, sum2], reverse=True))
BalanceScale(sum1, sum2) ==
    IF Less(sum1, sum2) THEN Div(sum2, sum1) ELSE Div(sum1, sum2)

\* the result of balance_weights(w1, w2): the two vectors, or the failure of
\* one of its assertions
balance_weights(w1, w2, container) ==
    LET sum1  == NpSum(w1, container)
        sum2  == NpSum(w2, container)
        scale == BalanceScale(sum1, sum2)
        o1    == IF Less(sum1, sum2) THEN Scaled(w1, scale) ELSE w1
        o2    == IF Less(sum2, sum1) THEN Scaled(w2, scale) ELSE w2
        ok    == /\ IsClose(NpSum(o1, container), NpSum(o2, container))
                 /\ GreaterEq(NpSum(o1, container), sum1)
                 /\ GreaterEq(NpSum(o2, container), sum2)
    IN  IF ok THEN [status |-> "returned", w1 |-> o1, w2 |-> o2]
        ELSE [status |-> "AssertionError", w1 |-> <<>>, w2 |-> <<>>]

\* ------------------------------------------------- read_trees.reweight
\* reweight with the normalisation ratio inverted
reweight_inverted(w, container) ==
    LET absw  == NpAbs(w)
        out   == Scaled(absw, Div(NpSum(absw, container), NpSum(w, container)))
        ok    == /\ IsClose(NpSum(w, container), NpSum(out, container))
                 /\ AllNonNegative(out)
    IN  IF ok THEN [status |-> "returned", w |-> out]
        ELSE [status |-> "AssertionError", w |-> <<>>]

\* reweight without the assertion that the result is non-negative
reweight_unchecked(w, container) ==
    LET absw  == NpAbs(w)
        out   == Scaled(absw, Div(NpSum(w, container), NpSum(absw, container)))
        ok    == IsClose(NpSum(w, container), NpSum(out, container))
    IN  IF ok THEN [status |-> "returned", w |-> out]
        ELSE [status |-> "AssertionError", w |-> <<>>]

reweight(w, container) ==
    LET absw  == NpAbs(w)
        \* numpy scalars: 0/0 is nan, ZeroDivisionError is never raised
        out   == Scaled(absw, Div(NpSum(w, container), NpSum(absw, container)))
        ok    == /\ IsClose(NpSum(w, container), NpSum(out, container))
                 /\ AllNonNegative(out)
    IN  IF ok THEN [status |-> "returned", w |-> out]
        ELSE [status |-> "AssertionError", w |-> <<>>]

\* ------------------------------------------------------ _format_TH1_name
\* strings are sequences of characters
S_Ttree == <<"T", "t", "r", "e", "e">>
S_MVA   == <<"M", "V", "A">>
S_us    == <<"_">>
S_plus  == <<"p", "l", "u", "s">>
S_minus == <<"m", "i", "n", "u", "s">>
S_Up    == <<"U", "p">>
S_Down  == <<"D", "o", "w", "n">>
S_ProcA == <<"P", "r", "o", "c", "A">>
S_JES   == <<"J", "E", "S">>
S_ee    == <<"e", "e">>
S_mumu  == <<"m", "u", "m", "u">>
S_all   == <<"a", "l", "l">>
S_nl    == <<"\n">>
S_DataEG == <<"D", "a", "t", "a", "E", "G">>
S_DataMu == <<"D", "a", "t", "a", "M", "u">>

\* s[i..j], empty when j < i
Slice(s, i, j) == IF j < i THEN <<>> ELSE SubSeq(s, i, j)

\* pat occurs in s starting at index i
MatchAt(s, pat, i) ==
    /\ i >= 1
    /\ i + Len(pat) - 1 <= Len(s)
    /\ Slice(s, i, i + Len(pat) - 1) = pat

\* re.sub("^" + pat, repl, s)
SubPrefix(pat, repl, s) ==
    IF MatchAt(s, pat, 1) THEN repl \o Slice(s, Len(pat) + 1, Len(s)) ELSE s

\* re.sub(pat + "$", repl, s): "$" matches at the end of the string and
\* just before a newline that ends the string
SubSuffix(pat, repl, s) ==
    LET atEnd == Len(s) - Len(pat) + 1
        atNl  == Len(s) - Len(pat)
    IN  IF MatchAt(s, pat, atEnd) THEN Slice(s, 1, atEnd - 1) \o repl
        ELSE IF Len(s) > 0 /\ s[Len(s)] = "\n" /\ MatchAt(s, pat, atNl)
             THEN Slice(s, 1, atNl - 1) \o repl \o S_nl
        ELSE s

\* "MVA_{}_".format(channel)
ChannelPrefix(channel) == S_MVA \o S_us \o channel \o S_us

\* _format_TH1_name that renames the suffixes whatever combine is
format_TH1_name_always(name, combine, channel) ==
    SubSuffix(S_us \o S_us \o S_minus, S_Down,
              SubSuffix(S_us \o S_us \o S_plus, S_Up,
                        SubPrefix(S_Ttree, ChannelPrefix(channel), name)))

format_TH1_name(name, combine, channel) ==
    LET n1 == SubPrefix(S_Ttree, ChannelPrefix(channel), name)
    IN  IF combine
        THEN SubSuffix(S_us \o S_us \o S_minus, S_Down,
                       SubSuffix(S_us \o S_us \o S_plus, S_Up, n1))
        ELSE n1

\* tree names the naming specification draws from: a head, a body, a tail
NameHeads == {S_Ttree, <<>>, <<"x">> \o S_Ttree}
NameBodies == {S_us \o S_us \o S_ProcA,
               S_us \o S_us \o S_ProcA \o S_us \o S_us \o S_JES,
               S_us \o S_us \o S_plus \o S_us \o S_ProcA}
NameTails == {<<>>, S_us \o S_us \o S_plus, S_us \o S_us \o S_minus,
              S_us \o S_plus, S_us \o S_us \o S_plus \o S_nl,
              S_us \o S_us \o S_minus \o <<"x">>}
TreeNames == {h \o b \o t : h \in NameHeads, b \in NameBodies, t \in NameTails}
Channels == {S_ee, S_mumu, S_all}

\* ------------------------------------------------------------ read_trees
\* the configured processes
signals == <<"S1", "S2">>
backgrounds == <<"B1", "B2">>
Whitelist == {signals[i] : i \in 1..Len(signals)}
                \cup {backgrounds[i] : i \in 1..Len(backgrounds)}
IsSignal(process) == \E i \in 1..Len(signals) : signals[i] = process

\* the values of negative_weight_treatment, one of them unrecognised
Treatments == {"passthrough", "abs", "reweight", "scale"}

\* read_tree: the DataFrame of a table (one row per event), empty when
\* read_root raises IOError or IndexError
read_tree(table) ==
    IF table.readable
    THEN [i \in 1..Len(table.w) |-> [EvtWeight |-> Fin(table.w[i], 1)]]
    ELSE <<>>

\* df[c]: a column of a DataFrame
Col(df, c) == [i \in 1..Len(df) |-> df[i][c]]

\* df[col_w] = w
WithMVAWeight(df, w) ==
    [i \in 1..Len(df) |-> [EvtWeight |-> df[i].EvtWeight, MVAWeight |-> w[i]]]

\* df.assign(Process=process)
WithProcess(df, process) ==
    [i \in 1..Len(df) |-> [EvtWeight |-> df[i].EvtWeight,
                           MVAWeight |-> df[i].MVAWeight,
                           Process |-> process]]

\* df[col_target] = flag
WithSignal(df, flag) ==
    [i \in 1..Len(df) |-> [EvtWeight |-> df[i].EvtWeight,
                           MVAWeight |-> df[i].MVAWeight,
                           Process |-> df[i].Process,
                           Signal |-> flag]]

\* pd.concat(dfs) of a non-empty list
RECURSIVE Concat(_)
Concat(dfs) == IF Len(dfs) = 0 THEN <<>> ELSE Head(dfs) \o Concat(Tail(dfs))

\* Treat that passes the weights through for an unrecognised treatment
Treat_lenient(treatment, w) ==
    IF treatment = "reweight" THEN reweight(w, "Series")
    ELSE IF treatment = "abs" THEN [status |-> "returned", w |-> NpAbs(w)]
    ELSE [status |-> "returned", w |-> w]

\* the negative-weight treatment of one process' weights (lines 255-263)
Treat(treatment, w) ==
    IF treatment = "reweight" THEN reweight(w, "Series")
    ELSE IF treatment = "abs" THEN [status |-> "returned", w |-> NpAbs(w)]
    ELSE IF treatment = "passthrough" THEN [status |-> "returned", w |-> w]
    ELSE [status |-> "ValueError", w |-> <<>>]

\* the tables a source file may hold: unreadable, empty, or a few events
Unreadable == [readable |-> FALSE, w |-> <<>>]
Table(w) == [readable |-> TRUE, w |-> w]
SourceTables == {Unreadable, Table(<<>>), Table(<<10>>), Table(<<5>>),
                 Table(<<8>>), Table(<<-3, 3>>), Table(<<-4, 1>>)}

\* the orders in which glob.iglob may yield the files of the input directory
\* (the order is the file system's)
GlobOrders == {<<"S1", "B1", "Other", "S2", "B2">>,
               <<"B2", "Other", "B1", "S2", "S1">>}

\* ------------------------------------------------------------ col_to_TH1
\* number of bins of every TH1 (the bins parameter)
Bins == 2
\* largest value np.random.poisson draws in the model
MaxDraw == 1

\* the bin, 1..bins, np.histogram(x, bins=bins, range=(0, 1)) puts value v
\* in; 0 when v is outside the range. The last bin includes the upper edge.
BinOf(v, bins) ==
    IF Less(v, Zero) \/ Less(Fin(1, 1), v) THEN 0
    ELSE IF v = Fin(1, 1) THEN bins
    ELSE (v.n * bins) \div v.d + 1

RECURSIVE BinSum(_, _, _, _, _)
\* the sum of w[i] over the x[i], i >= from, that fall in bin b
BinSum(x, w, b, bins, from) ==
    IF from > Len(x) THEN Zero
    ELSE IF BinOf(x[from], bins) = b
         THEN Add(w[from], BinSum(x, w, b, bins, from + 1))
         ELSE BinSum(x, w, b, bins, from + 1)

\* weights=None: every sample weighs 1
NoWeights == [none |-> TRUE, v |-> <<>>]
WeightsOf(v) == [none |-> FALSE, v |-> v]

\* col_to_TH1(x, w, name, bins): the TH1D, its errors kept squared (Sumw2);
\* np.power(None, 2) raises TypeError when w is None
col_to_TH1(x, w, name, bins) ==
    IF w.none
    THEN [status |-> "TypeError", name |-> name, contents |-> <<>>, sumw2 |-> <<>>]
    ELSE [status |-> "ok", name |-> name,
          contents |-> [b \in 1..bins |-> BinSum(x, w.v, b, bins, 1)],
          sumw2 |-> [b \in 1..bins |->
                       BinSum(x, [i \in 1..Len(w.v) |-> Mul(w.v[i], w.v[i])],
                              b, bins, 1)]]

\* ROOT.TH1D(): a histogram without content
EmptyTH1 == [status |-> "ok", name |-> <<>>, contents |-> <<>>, sumw2 |-> <<>>]

\* every value of a DataFrame, row by row (np.histogram flattens its input)
RECURSIVE Flatten(_)
Flatten(df) ==
    IF Len(df) = 0 THEN <<>>
    ELSE <<Head(df).x, Head(df).EvtWeight, Head(df).MVA>> \o Flatten(Tail(df))

\* one bin of poisson_pseudodata (lines 404-407): np.random.poisson(lam)
\* drew `draw`; a negative lam raises ValueError and the draw, made on -lam,
\* is negated; a mean of 0 draws 0
PoissonBin(lam, draw) ==
    IF lam = Zero THEN Zero
    ELSE IF Less(lam, Zero) THEN Neg(Fin(draw, 1))
    ELSE Fin(draw, 1)

\* poisson_pseudodata(df, bins): col_to_TH1 is called on the whole DataFrame
\* and without weights (line 401)
poisson_pseudodata(df, bins, draws) ==
    LET h == col_to_TH1(Flatten(df), NoWeights, S_MVA, bins)
    IN  IF h.status # "ok" THEN h
        ELSE [h EXCEPT !.contents =
                 [b \in 1..bins |-> PoissonBin(h.contents[b], draws[b])]]

\* ------------------------------------------------------------- write_root
\* the values of the data option, one of them unrecognised
DataModes == {"empty", "poisson", "asimov"}

\* the names of the trees of the input files
T_ProcA  == S_Ttree \o S_us \o S_us \o S_ProcA
T_Plus   == T_ProcA \o S_us \o S_us \o S_JES \o S_us \o S_us \o S_plus
T_Minus  == T_ProcA \o S_us \o S_us \o S_JES \o S_us \o S_us \o S_minus
T_DataEG == S_Ttree \o S_us \o S_us \o S_DataEG
T_DataMu == S_Ttree \o S_us \o S_us \o S_DataMu
InputTrees == {T_ProcA, T_Plus, T_Minus, T_DataEG, T_DataMu}

Event(xn, xd, w) == [x |-> Fin(xn, xd), EvtWeight |-> w]

\* the events of each tree; one event weight of ProcA is NaN
EventsOf(tree) ==
    IF tree = T_ProcA
    THEN <<Event(1, 4, Fin(2, 1)), Event(3, 4, NaN), Event(3, 4, Fin(-3, 1))>>
    ELSE IF tree = T_Plus THEN <<Event(1, 4, Fin(3, 1))>>
    ELSE IF tree = T_Minus THEN <<Event(3, 4, Fin(1, 1))>>
    ELSE IF tree = T_DataEG THEN <<Event(1, 4, Fin(1, 1))>>
    ELSE <<Event(1, 1, Fin(1, 1)), Event(3, 2, Fin(1, 1))>>

\* the sets of trees that may be empty or unreadable in a directory
EmptyChoices == {{}, {T_ProcA}, {T_ProcA, T_DataEG, T_DataMu}, InputTrees}

\* the keys of a source file, in key order: up to two in the first file
\* and up to one in the second
FirstFileKeys == {<<>>} \cup {<<a>> : a \in InputTrees}
                   \cup {<<a, b>> : a \in InputTrees, b \in InputTrees}
SecondFileKeys == {<<>>} \cup {<<a>> : a \in InputTrees}
Directories == {<<f1, f2>> : f1 \in FirstFileKeys, f2 \in SecondFileKeys}

\* the directories of the deduplication specification: a first file of up
\* to MaxKeys keys and a second file of up to one key, over a process tree
\* and a data tree
DedupTrees == {T_ProcA, T_DataMu}
DedupDirectories ==
    {<<f1, f2>> : f1 \in SeqsUpTo(DedupTrees, MaxKeys),
                  f2 \in SeqsUpTo(DedupTrees, 1)}

\* read_tree(root_file, tree, ...) in write_root: the events of the named
\* tree, none when it is empty or unreadable
read_tree_named(tree, empty) ==
    IF tree \in empty THEN <<>> ELSE EventsOf(tree)

\* response_function(df): the classifier response of each event
response_function(df) == [i \in 1..Len(df) |-> df[i].x]

\* df.assign(MVA=response_function(df))
WithMVA(df) ==
    LET r == response_function(df)
    IN  [i \in 1..Len(df) |-> [x |-> df[i].x, EvtWeight |-> df[i].EvtWeight,
                               MVA |-> r[i]]]

\* df[branch_w].isnull().sum()
NanWeights(df) == Cardinality({i \in 1..Len(df) : IsNaN(df[i].EvtWeight)})

\* lines 482-486: with drop_nan the rows whose weight is NaN are dropped
HandleNan(df, drop_nan) ==
    IF NanWeights(df) > 0 /\ drop_nan
    THEN SelectSeq(df, LAMBDA r : ~IsNaN(r.EvtWeight))
    ELSE df

\* data_name = "DataEG" if channel == "ee" else "DataMu"
DataName(channel) == IF channel = S_ee THEN S_DataEG ELSE S_DataMu

\* re.search(pat, s)
Contains(s, pat) == \E i \in 1..Len(s) : MatchAt(s, pat, i)

\* re.search(pat + "$", s)
EndsWith(s, pat) ==
    \/ MatchAt(s, pat, Len(s) - Len(pat) + 1)
    \/ (Len(s) > 0 /\ s[Len(s)] = "\n" /\ MatchAt(s, pat, Len(s) - Len(pat)))

\* re.search(r"(minus)|(plus)|({})$".format(data_name), tree) (line 489)
ExcludedFromPseudodata(tree, channel) ==
    \/ Contains(tree, S_minus)
    \/ Contains(tree, S_plus)
    \/ EndsWith(tree, DataName(channel))

\* "MVA_{}__{}".format(channel, data_process) (lines 499, 510)
ChannelName(channel, combine) ==
    S_MVA \o S_us \o channel \o S_us \o S_us
      \o (IF combine THEN <<"d", "a", "t", "a", "_", "o", "b", "s">>
          ELSE <<"D", "A", "T", "A">>)

\* ------------------------------------------------------------ read_config
\* the top-level keys of cfg other than root_out, and the root_out sub-options
TopKeys == {"seed", "channel", "plot_dir", "root_dir", "mva_dir",
            "test_fraction", "equalise_signal", "negative_weight_treatment",
            "preprocessors"}
RootOutKeys == {"combine", "drop_nan", "data", "bins"}

\* the module-level defaults (lines 20-33); a value is "default" or "user"
DefaultCfg == [top |-> [k \in TopKeys |-> "default"],
               root_out |-> [k \in RootOutKeys |-> "default"]]

\* what yaml.load returns: None for an empty file, else a mapping giving
\* some of the top-level keys and, when it gives root_out, some of its
\* sub-options; every value it gives is the user's
UserFiles ==
    {[none |-> TRUE, top |-> {}, has_root_out |-> FALSE, root_out |-> {}]}
    \cup {[none |-> FALSE, top |-> t, has_root_out |-> FALSE, root_out |-> {}] :
            t \in SUBSET TopKeys}
    \cup {[none |-> FALSE, top |-> t, has_root_out |-> TRUE, root_out |-> r] :
            t \in SUBSET TopKeys, r \in SUBSET RootOutKeys}

\* cfg.update(loaded): each key of the loaded mapping replaces the value of
\* that key in cfg, the root_out mapping as a whole
dict_update(cfg, loaded) ==
    [top |-> [k \in TopKeys |-> IF k \in loaded.top THEN "user" ELSE cfg.top[k]],
     root_out |-> IF loaded.has_root_out
                  THEN [k \in loaded.root_out |-> "user"]
                  ELSE cfg.root_out]

\* ------------------------------------------------------------------ state
VARIABLES
    bw_pc, bw_w1, bw_w2, bw_container, bw_out,   \* a call of balance_weights
    rw_pc, rw_w, rw_container, rw_out,           \* a call of reweight
    fn_pc, fn_name, fn_combine, fn_channel, fn_out,  \* a call of _format_TH1_name
    \* a call of read_trees
    rt_pc,          \* position: "loop", "balance", "label", or how it ended
    rt_treatment,   \* negative_weight_treatment
    rt_equalise,    \* equalise_signal
    rt_dir,         \* the input directory: process -> table of its file
    rt_files,       \* root_files: what the iterator has yet to yield
    rt_read,        \* the processes whose table read_tree has read
    rt_sig_dfs,     \* sig_dfs, then sig_df
    rt_bkg_dfs,     \* bkg_dfs, then bkg_df
    rt_out,         \* the returned DataFrame
    \* a call of write_root
    wr_pc,          \* position: "loop", or how the call ended
    wr_channel, wr_combine, wr_drop_nan, wr_data,   \* its options
    wr_dir,         \* the input directory: the key list of each of its files
    wr_empty,       \* the trees of the directory that are empty or unreadable
    wr_files,       \* root_files: the key lists of the files yet to be opened
    wr_keys,        \* the keys of the open file yet to be visited
    wr_seen,        \* unique_everseen: the names already seen in the open file
    wr_pseudo_dfs,  \* pseudo_dfs
    wr_fo,          \* the histograms written to the output file, in order
    \* a call of read_config
    cf_pc,          \* "call", "returned" or "TypeError"
    cf_loaded,      \* what yaml.load(f) returns
    cfg             \* the settings map

bwVars == <<bw_pc, bw_w1, bw_w2, bw_container, bw_out>>
rwVars == <<rw_pc, rw_w, rw_container, rw_out>>
fnVars == <<fn_pc, fn_name, fn_combine, fn_channel, fn_out>>
rtVars == <<rt_pc, rt_treatment, rt_equalise, rt_dir, rt_files, rt_read,
            rt_sig_dfs, rt_bkg_dfs, rt_out>>
wrVars == <<wr_pc, wr_channel, wr_combine, wr_drop_nan, wr_data, wr_dir, wr_empty,
            wr_files, wr_keys, wr_seen, wr_pseudo_dfs, wr_fo>>
cfVars == <<cf_pc, cf_loaded, cfg>>
vars == <<bwVars, rwVars, fnVars, rtVars, wrVars, cfVars>>

NoResult == [status |-> "none"]

BwIdle == /\ bw_pc = "idle" /\ bw_w1 = <<>> /\ bw_w2 = <<>>
          /\ bw_container = "ndarray" /\ bw_out = NoResult
RwIdle == /\ rw_pc = "idle" /\ rw_w = <<>>
          /\ rw_container = "ndarray" /\ rw_out = NoResult

FnIdle == /\ fn_pc = "idle" /\ fn_name = <<>> /\ fn_combine = TRUE
          /\ fn_channel = <<>> /\ fn_out = <<>>

RtIdle == /\ rt_pc = "idle" /\ rt_treatment = "passthrough" /\ rt_equalise = TRUE
          /\ rt_dir = <<>> /\ rt_files = <<>> /\ rt_read = {}
          /\ rt_sig_dfs = <<>> /\ rt_bkg_dfs = <<>> /\ rt_out = <<>>

WrIdle == /\ wr_pc = "idle" /\ wr_channel = <<>> /\ wr_combine = TRUE
          /\ wr_drop_nan = FALSE /\ wr_data = "empty" /\ wr_empty = {}
          /\ wr_dir = <<>>
          /\ wr_files = <<>> /\ wr_keys = <<>> /\ wr_seen = {}
          /\ wr_pseudo_dfs = <<>> /\ wr_fo = <<>>

\* the settings map before read_config is called
CfIdle == /\ cf_pc = "idle" /\ cfg = DefaultCfg
          /\ cf_loaded = [none |-> TRUE, top |-> {}, has_root_out |-> FALSE,
                          root_out |-> {}]

\* ------------------------------------- specification: balance_weights
InitBalance ==
    /\ bw_pc = "call"
    /\ bw_w1 \in Vectors
    /\ bw_w2 \in Vectors
    /\ bw_container \in Containers
    /\ bw_out = NoResult
    /\ RwIdle /\ FnIdle /\ RtIdle /\ WrIdle /\ CfIdle

BalanceWeights ==
    /\ bw_pc = "call"
    /\ bw_out' = balance_weights(bw_w1, bw_w2, bw_container)
    /\ bw_pc' = bw_out'.status
    /\ UNCHANGED <<bw_w1, bw_w2, bw_container, rwVars, fnVars, rtVars, wrVars, cfVars>>

NextBalance == BalanceWeights
SpecBalance == InitBalance /\ [][NextBalance]_vars

\* ------------------------------------------- specification: reweight
InitReweight ==
    /\ rw_pc = "call"
    /\ rw_w \in Vectors
    /\ rw_container \in Containers
    /\ rw_out = NoResult
    /\ BwIdle /\ FnIdle /\ RtIdle /\ WrIdle /\ CfIdle

Reweight ==
    /\ rw_pc = "call"
    /\ rw_out' = reweight(rw_w, rw_container)
    /\ rw_pc' = rw_out'.status
    /\ UNCHANGED <<rw_w, rw_container, bwVars, fnVars, rtVars, wrVars, cfVars>>

NextReweight == Reweight
SpecReweight == InitReweight /\ [][NextReweight]_vars

\* ------------------------------------ specification: _format_TH1_name
InitName ==
    /\ fn_pc = "call"
    /\ fn_name \in TreeNames
    /\ fn_combine \in BOOLEAN
    /\ fn_channel \in Channels
    /\ fn_out = <<>>
    /\ BwIdle /\ RwIdle /\ RtIdle /\ WrIdle /\ CfIdle

FormatTH1Name ==
    /\ fn_pc = "call"
    /\ fn_out' = format_TH1_name(fn_name, fn_combine, fn_channel)
    /\ fn_pc' = "returned"
    /\ UNCHANGED <<fn_name, fn_combine, fn_channel, bwVars, rwVars, rtVars, wrVars, cfVars>>

NextName == FormatTH1Name
SpecName == InitName /\ [][NextName]_vars

\* ------------------------------------------ specification: read_trees
InitReadTrees ==
    /\ rt_pc = "loop"
    /\ rt_treatment \in Treatments
    /\ rt_equalise \in BOOLEAN
    /\ rt_dir \in [Whitelist -> SourceTables]
    /\ rt_files \in GlobOrders
    /\ rt_read = {}
    /\ rt_sig_dfs = <<>>
    /\ rt_bkg_dfs = <<>>
    /\ rt_out = <<>>
    /\ BwIdle /\ RwIdle /\ FnIdle /\ WrIdle /\ CfIdle

rtOther == <<bwVars, rwVars, fnVars, wrVars, cfVars>>

\* one iteration of "for root_file in root_files" on a file whose process
\* is not among the configured ones (lines 242-246)
RtSkipProcess ==
    /\ rt_pc = "loop"
    /\ rt_files # <<>>
    /\ Head(rt_files) \notin Whitelist
    /\ rt_files' = Tail(rt_files)
    /\ UNCHANGED <<rt_pc, rt_treatment, rt_equalise, rt_dir, rt_read,
                   rt_sig_dfs, rt_bkg_dfs, rt_out, rtOther>>

\* one iteration on the file of a configured process (lines 242-276)
RtReadFile ==
    /\ rt_pc = "loop"
    /\ rt_files # <<>>
    /\ Head(rt_files) \in Whitelist
    /\ LET process == Head(rt_files)
           df      == read_tree(rt_dir[process])
           treated == Treat(rt_treatment, Col(df, "EvtWeight"))
           labelled == WithProcess(WithMVAWeight(df, treated.w), process)
       IN  /\ rt_read' = rt_read \cup {process}
           /\ rt_files' = Tail(rt_files)
           /\ IF Len(df) = 0                          \* df.empty: continue
              THEN UNCHANGED <<rt_pc, rt_sig_dfs, rt_bkg_dfs>>
              ELSE IF treated.status # "returned"     \* the treatment raises
              THEN /\ rt_pc' = treated.status
                   /\ UNCHANGED <<rt_sig_dfs, rt_bkg_dfs>>
              ELSE /\ rt_pc' = rt_pc
                   /\ IF IsSignal(process)
                      THEN /\ rt_sig_dfs' = Append(rt_sig_dfs, labelled)
                           /\ UNCHANGED rt_bkg_dfs
                      ELSE /\ rt_bkg_dfs' = Append(rt_bkg_dfs, labelled)
                           /\ UNCHANGED rt_sig_dfs
    /\ UNCHANGED <<rt_treatment, rt_equalise, rt_dir, rt_out, rtOther>>

\* sig_df = pd.concat(sig_dfs); bkg_df = pd.concat(bkg_dfs) (lines 278-279);
\* pd.concat of an empty list raises ValueError("No objects to concatenate")
RtConcat ==
    /\ rt_pc = "loop"
    /\ rt_files = <<>>
    /\ IF rt_sig_dfs = <<>> \/ rt_bkg_dfs = <<>>
       THEN /\ rt_pc' = "ValueError_concat"
            /\ UNCHANGED <<rt_sig_dfs, rt_bkg_dfs>>
       ELSE /\ rt_pc' = "balance"
            /\ rt_sig_dfs' = Concat(rt_sig_dfs)
            /\ rt_bkg_dfs' = Concat(rt_bkg_dfs)
    /\ UNCHANGED <<rt_treatment, rt_equalise, rt_dir, rt_files, rt_read,
                   rt_out, rtOther>>

\* RtBalance that balances the raw event weights (branch_w) instead of the
\* treated ones (col_w)
RtBalance_raw ==
    /\ rt_pc = "balance"
    /\ LET b == balance_weights(Col(rt_sig_dfs, "EvtWeight"),
                                Col(rt_bkg_dfs, "EvtWeight"), "Series")
       IN  IF ~rt_equalise
           THEN /\ rt_pc' = "label"
                /\ UNCHANGED <<rt_sig_dfs, rt_bkg_dfs>>
           ELSE IF b.status # "returned"
           THEN /\ rt_pc' = b.status
                /\ UNCHANGED <<rt_sig_dfs, rt_bkg_dfs>>
           ELSE /\ rt_pc' = "label"
                /\ rt_sig_dfs' = [i \in 1..Len(rt_sig_dfs) |->
                                    [rt_sig_dfs[i] EXCEPT !.MVAWeight = b.w1[i]]]
                /\ rt_bkg_dfs' = [i \in 1..Len(rt_bkg_dfs) |->
                                    [rt_bkg_dfs[i] EXCEPT !.MVAWeight = b.w2[i]]]
    /\ UNCHANGED <<rt_treatment, rt_equalise, rt_dir, rt_files, rt_read,
                   rt_out, rtOther>>

\* if equalise_signal: balance_weights on the two classes (lines 282-284)
RtBalance ==
    /\ rt_pc = "balance"
    /\ LET b == balance_weights(Col(rt_sig_dfs, "MVAWeight"),
                                Col(rt_bkg_dfs, "MVAWeight"), "Series")
       IN  IF ~rt_equalise
           THEN /\ rt_pc' = "label"
                /\ UNCHANGED <<rt_sig_dfs, rt_bkg_dfs>>
           ELSE IF b.status # "returned"
           THEN /\ rt_pc' = b.status
                /\ UNCHANGED <<rt_sig_dfs, rt_bkg_dfs>>
           ELSE /\ rt_pc' = "label"
                /\ rt_sig_dfs' = [i \in 1..Len(rt_sig_dfs) |->
                                    [rt_sig_dfs[i] EXCEPT !.MVAWeight = b.w1[i]]]
                /\ rt_bkg_dfs' = [i \in 1..Len(rt_bkg_dfs) |->
                                    [rt_bkg_dfs[i] EXCEPT !.MVAWeight = b.w2[i]]]
    /\ UNCHANGED <<rt_treatment, rt_equalise, rt_dir, rt_files, rt_read,
                   rt_out, rtOther>>

\* label the classes and return their concatenation (lines 287-290)
RtReturn ==
    /\ rt_pc = "label"
    /\ rt_out' = WithSignal(rt_sig_dfs, 1) \o WithSignal(rt_bkg_dfs, 0)
    /\ rt_pc' = "returned"
    /\ UNCHANGED <<rt_treatment, rt_equalise, rt_dir, rt_files, rt_read,
                   rt_sig_dfs, rt_bkg_dfs, rtOther>>

NextReadTrees ==
    \/ RtSkipProcess
    \/ RtReadFile
    \/ RtConcat
    \/ RtBalance
    \/ RtReturn
SpecReadTrees == InitReadTrees /\ [][NextReadTrees]_vars

\* ------------------------------------------ specification: write_root
InitWriteRoot ==
    /\ wr_pc = "loop"
    /\ wr_channel \in Channels
    /\ wr_combine \in BOOLEAN
    /\ wr_drop_nan \in BOOLEAN
    /\ wr_data \in DataModes
    /\ wr_empty \in EmptyChoices
    /\ wr_dir \in Directories
    /\ wr_files = wr_dir
    /\ wr_keys = <<>>
    /\ wr_seen = {}
    /\ wr_pseudo_dfs = <<>>
    /\ wr_fo = <<>>
    /\ BwIdle /\ RwIdle /\ FnIdle /\ RtIdle /\ CfIdle

wrOther == <<bwVars, rwVars, fnVars, rtVars, cfVars>>
wrOptions == <<wr_channel, wr_combine, wr_drop_nan, wr_data, wr_dir, wr_empty>>

\* "for root_file in root_files": the next file is opened and its keys
\* listed (lines 466-471)
WrOpenFile ==
    /\ wr_pc = "loop"
    /\ wr_keys = <<>>
    /\ wr_files # <<>>
    /\ wr_keys' = Head(wr_files)
    /\ wr_files' = Tail(wr_files)
    /\ wr_seen' = {}
    /\ UNCHANGED <<wr_pc, wrOptions, wr_pseudo_dfs, wr_fo, wrOther>>

\* WrDuplicateKey without the deduplication: the tree of a key whose name
\* was seen before is processed again
WrDuplicateKey_processed ==
    /\ wr_pc = "loop"
    /\ wr_keys # <<>>
    /\ Head(wr_keys) \in wr_seen
    /\ LET tree == Head(wr_keys)
           read == read_tree_named(tree, wr_empty)
           df   == HandleNan(WithMVA(read), wr_drop_nan)
           h    == col_to_TH1(Col(df, "MVA"), WeightsOf(Col(df, "EvtWeight")),
                              format_TH1_name(tree, wr_combine, wr_channel), Bins)
       IN  /\ wr_keys' = Tail(wr_keys)
           /\ IF Len(read) = 0
              THEN UNCHANGED <<wr_pseudo_dfs, wr_fo>>
              ELSE /\ wr_pseudo_dfs' =
                        IF ExcludedFromPseudodata(tree, wr_channel)
                        THEN wr_pseudo_dfs
                        ELSE Append(wr_pseudo_dfs, df)
                   /\ wr_fo' = Append(wr_fo, h)
    /\ UNCHANGED <<wr_pc, wrOptions, wr_files, wr_seen, wrOther>>

\* unique_everseen drops a key whose name it has seen in this file
WrDuplicateKey ==
    /\ wr_pc = "loop"
    /\ wr_keys # <<>>
    /\ Head(wr_keys) \in wr_seen
    /\ wr_keys' = Tail(wr_keys)
    /\ UNCHANGED <<wr_pc, wrOptions, wr_files, wr_seen, wr_pseudo_dfs, wr_fo,
                   wrOther>>

\* the body of the loop for a tree name not seen before (lines 472-497)
WrTree ==
    /\ wr_pc = "loop"
    /\ wr_keys # <<>>
    /\ Head(wr_keys) \notin wr_seen
    /\ LET tree == Head(wr_keys)
           read == read_tree_named(tree, wr_empty)
           df   == HandleNan(WithMVA(read), wr_drop_nan)
           h    == col_to_TH1(Col(df, "MVA"), WeightsOf(Col(df, "EvtWeight")),
                              format_TH1_name(tree, wr_combine, wr_channel), Bins)
       IN  /\ wr_keys' = Tail(wr_keys)
           /\ wr_seen' = wr_seen \cup {tree}
           /\ IF Len(read) = 0                       \* df.empty: continue
              THEN UNCHANGED <<wr_pseudo_dfs, wr_fo>>
              ELSE /\ wr_pseudo_dfs' =
                        IF ExcludedFromPseudodata(tree, wr_channel)
                        THEN wr_pseudo_dfs
                        ELSE Append(wr_pseudo_dfs, df)
                   /\ wr_fo' = Append(wr_fo, h)
    /\ UNCHANGED <<wr_pc, wrOptions, wr_files, wrOther>>

\* after the loop: the channel-level histogram (lines 499-515)
WrChannelHistogram ==
    /\ wr_pc = "loop"
    /\ wr_keys = <<>>
    /\ wr_files = <<>>
    /\ \E draws \in [1..Bins -> 0..MaxDraw] :
         LET h == poisson_pseudodata(Concat(wr_pseudo_dfs), Bins, draws)
             named == [h EXCEPT !.name = ChannelName(wr_channel, wr_combine)]
         IN  IF wr_data = "poisson"
             THEN IF wr_pseudo_dfs = <<>>       \* pd.concat([]) raises
                  THEN wr_pc' = "ValueError_concat" /\ UNCHANGED wr_fo
                  ELSE IF h.status # "ok"
                  THEN wr_pc' = h.status /\ UNCHANGED wr_fo
                  ELSE wr_pc' = "done" /\ wr_fo' = Append(wr_fo, named)
             ELSE IF wr_data = "empty"
             THEN /\ wr_pc' = "done"
                  /\ wr_fo' = Append(wr_fo,
                        [EmptyTH1 EXCEPT !.name = ChannelName(wr_channel, wr_combine)])
             ELSE wr_pc' = "ValueError_data" /\ UNCHANGED wr_fo
    /\ UNCHANGED <<wrOptions, wr_files, wr_keys, wr_seen, wr_pseudo_dfs, wrOther>>

NextWriteRoot ==
    \/ WrOpenFile
    \/ WrDuplicateKey
    \/ WrTree
    \/ WrChannelHistogram
SpecWriteRoot == InitWriteRoot /\ [][NextWriteRoot]_vars

\* ------------- specification: write_root on files with repeated tree names
InitDedup ==
    /\ wr_pc = "loop"
    /\ wr_channel \in Channels
    /\ wr_combine \in BOOLEAN
    /\ wr_drop_nan \in BOOLEAN
    /\ wr_data \in DataModes
    /\ wr_empty \in EmptyChoices
    /\ wr_dir \in DedupDirectories
    /\ wr_files = wr_dir
    /\ wr_keys = <<>>
    /\ wr_seen = {}
    /\ wr_pseudo_dfs = <<>>
    /\ wr_fo = <<>>
    /\ BwIdle /\ RwIdle /\ FnIdle /\ RtIdle /\ CfIdle

SpecDedup == InitDedup /\ [][NextWriteRoot]_vars

\* ----------------------- specification: a call of read_trees or write_root
InitIO == InitReadTrees \/ InitWriteRoot
NextIO == NextReadTrees \/ NextWriteRoot
SpecIO == InitIO /\ [][NextIO]_vars

\* ------------------------------------------ specification: read_config
InitConfig ==
    /\ cf_pc = "call"
    /\ cf_loaded \in UserFiles
    /\ cfg = DefaultCfg
    /\ BwIdle /\ RwIdle /\ FnIdle /\ RtIdle /\ WrIdle

\* read_config (lines 50-55); dict.update(None) raises TypeError
ReadConfig ==
    /\ cf_pc = "call"
    /\ IF cf_loaded.none
       THEN cf_pc' = "TypeError" /\ UNCHANGED cfg
       ELSE cf_pc' = "returned" /\ cfg' = dict_update(cfg, cf_loaded)
    /\ UNCHANGED <<cf_loaded, bwVars, rwVars, fnVars, rtVars, wrVars>>

NextConfig == ReadConfig
SpecConfig == InitConfig /\ [][NextConfig]_vars

\* ============================================================== claims
\* ---- C1: balance_weights(w1, w2), for all weight vectors whose sums are
\* non-negative (zero sums included), returns without an assertion failure,
\* the returned vectors have equal sums (within tolerance) and each returned
\* sum is >= the sum of the corresponding input.
C1_BalanceNonNegativeSums ==
    (/\ bw_pc # "call"
     /\ GreaterEq(NpSum(bw_w1, bw_container), Zero)
     /\ GreaterEq(NpSum(bw_w2, bw_container), Zero))
    => /\ bw_pc = "returned"
       /\ IsClose(NpSum(bw_out.w1, bw_container), NpSum(bw_out.w2, bw_container))
       /\ GreaterEq(NpSum(bw_out.w1, bw_container), NpSum(bw_w1, bw_container))
       /\ GreaterEq(NpSum(bw_out.w2, bw_container), NpSum(bw_w2, bw_container))

\* ---- C2: reweight(w), for every weight vector whose sum is > 0, returns a
\* vector whose elements are all >= 0, whose sum is the original signed sum,
\* and whose i-th element is |w_i| * sum(w) / sum(|w|).
C2_ReweightPreservesSum ==
    (rw_pc # "call" /\ Less(Zero, NpSum(rw_w, rw_container)))
    => /\ rw_pc = "returned"
       /\ Len(rw_out.w) = Len(rw_w)
       /\ \A i \in 1..Len(rw_w) : GreaterEq(rw_out.w[i], Zero)
       /\ NumEq(NpSum(rw_out.w, rw_container), NpSum(rw_w, rw_container))
       /\ \A i \in 1..Len(rw_w) :
             \* out_i * sum(|w|) = |w_i| * sum(w), in integers
             rw_out.w[i].n * NpSum(NpAbs(rw_w), rw_container).n
               = AbsInt(rw_w[i].n) * NpSum(rw_w, rw_container).n * rw_out.w[i].d

\* a positive-sum vector with a negative weight has been reweighted
C2_Witness ==
    /\ rw_pc = "returned"
    /\ Less(Zero, NpSum(rw_w, rw_container))
    /\ \E i \in 1..Len(rw_w) : Less(rw_w[i], Zero)
    /\ \E i \in 1..Len(rw_w) : rw_out.w[i] # NumAbs(rw_w[i])

C4_ExampleAsStated ==
    (/\ fn_pc = "returned"
     /\ fn_name = S_Ttree \o S_us \o S_us \o S_ProcA \o S_us \o S_us \o S_plus
     /\ fn_channel = S_ee
     /\ fn_combine)
    => fn_out = S_MVA \o S_us \o S_ee \o S_us \o S_ProcA \o S_Up

\* ---- C4 (amended): _format_TH1_name maps "Ttree__ProcA__plus" with channel
\* "ee" and combine=True to exactly "MVA_ee___ProcAUp": the leading "Ttree"
\* is replaced by "MVA_<channel>_" and what follows it, the name's own
\* double underscore included, is kept; a trailing "__plus"/"__minus" becomes
\* "Up"/"Down" when combine is enabled, and with combine disabled the
\* plus/minus suffix is left unchanged.
C4_NameTransformation ==
    fn_pc = "returned" =>
      /\ (/\ fn_name = S_Ttree \o S_us \o S_us \o S_ProcA \o S_us \o S_us \o S_plus
          /\ fn_channel = S_ee
          /\ fn_combine)
         => fn_out = S_MVA \o S_us \o S_ee \o S_us
                       \o S_us \o S_us \o S_ProcA \o S_Up
      /\ \A b \in NameBodies :
           /\ (fn_name = S_Ttree \o b \o S_us \o S_us \o S_plus /\ fn_combine)
                => fn_out = S_MVA \o S_us \o fn_channel \o S_us \o b \o S_Up
           /\ (fn_name = S_Ttree \o b \o S_us \o S_us \o S_minus /\ fn_combine)
                => fn_out = S_MVA \o S_us \o fn_channel \o S_us \o b \o S_Down
           /\ \A t \in NameTails :
                (fn_name = S_Ttree \o b \o t /\ ~fn_combine)
                => fn_out = S_MVA \o S_us \o fn_channel \o S_us \o b \o t

\* the spec's example name has been formatted
C4_Witness ==
    /\ fn_pc = "returned"
    /\ fn_name = S_Ttree \o S_us \o S_us \o S_ProcA \o S_us \o S_us \o S_plus
    /\ fn_channel = S_ee
    /\ fn_combine
    /\ fn_out # fn_name

\* the rows of a returned table with the given class label
ClassRows(table, flag) == SelectSeq(table, LAMBDA r : r.Signal = flag)

\* the weight the negative-weight treatment of its process gives a row
RowTreated(r) ==
    LET w == ToNums(rt_dir[r.Process].w)
        t == Treat(rt_treatment, w).w
    IN  t[CHOOSE i \in 1..Len(w) : w[i] = r.EvtWeight]

\* the spec's example: signal sums {10, 5}, background sums {8, 8}
ExampleDir ==
    rt_dir = [p \in Whitelist |->
                IF p = "S1" THEN Table(<<10>>)
                ELSE IF p = "S2" THEN Table(<<5>>)
                ELSE Table(<<8>>)]

\* ---- C5: read_trees with equalise_signal enabled: in the returned table
\* the sum of MVAWeight over signal rows equals the sum over background rows,
\* and the balancing is applied once, to the weights the per-process
\* negative-weight treatment produced, after every process has been treated
\* and before the two classes are concatenated; signal sums {10, 5} and
\* background sums {8, 8} give equal sums.
C5_EqualisedClasses ==
    /\ (rt_pc = "returned" /\ rt_equalise) =>
         LET sig == ClassRows(rt_out, 1)
             bkg == ClassRows(rt_out, 0)
             b   == balance_weights([i \in 1..Len(sig) |-> RowTreated(sig[i])],
                                    [i \in 1..Len(bkg) |-> RowTreated(bkg[i])],
                                    "Series")
         IN  /\ IsClose(NpSum(Col(sig, "MVAWeight"), "Series"),
                        NpSum(Col(bkg, "MVAWeight"), "Series"))
             /\ b.status = "returned"
             /\ Col(sig, "MVAWeight") = b.w1
             /\ Col(bkg, "MVAWeight") = b.w2
             /\ (ExampleDir /\ rt_treatment # "scale")
                  => /\ NpSum(Col(sig, "MVAWeight"), "Series") = Fin(16, 1)
                     /\ NpSum(Col(bkg, "MVAWeight"), "Series") = Fin(16, 1)
    \* the balancing step runs when the loop over the files has ended and
    \* nothing has been returned yet
    /\ rt_pc = "balance" => (rt_files = <<>> /\ rt_out = <<>>)
    \* and until then every weight is the treated weight of its process
    /\ rt_pc = "loop" =>
         \A dfs \in {rt_sig_dfs, rt_bkg_dfs} :
            \A k \in 1..Len(dfs) : \A i \in 1..Len(dfs[k]) :
               dfs[k][i].MVAWeight = RowTreated(dfs[k][i])
    /\ rt_pc = "balance" =>
         \A df \in {rt_sig_dfs, rt_bkg_dfs} :
            \A i \in 1..Len(df) : df[i].MVAWeight = RowTreated(df[i])

\* the example has been read with equalise_signal and the signal weights
\* were scaled up
C5_Witness ==
    /\ rt_pc = "returned"
    /\ rt_equalise
    /\ ExampleDir
    /\ \E i \in 1..Len(rt_out) :
          rt_out[i].Signal = 1 /\ rt_out[i].MVAWeight # rt_out[i].EvtWeight

\* how a call of read_trees or write_root can have ended
RtEnded == rt_pc \in {"returned", "ValueError", "AssertionError", "ValueError_concat"}
WrEnded == wr_pc \in {"done", "ValueError_data", "ValueError_concat", "TypeError"}

BadTreatment == rt_treatment \notin {"passthrough", "abs", "reweight"}
BadData == wr_data \notin {"empty", "poisson"}

\* the names of the trees of a key list, each once, in order of first
\* occurrence
RECURSIVE FirstOccurrences(_, _)
FirstOccurrences(keys, seen) ==
    IF Len(keys) = 0 THEN <<>>
    ELSE IF Head(keys) \in seen THEN FirstOccurrences(Tail(keys), seen)
    ELSE <<Head(keys)>> \o FirstOccurrences(Tail(keys), seen \cup {Head(keys)})

\* the non-empty trees of the directory, file by file, each once per file
RECURSIVE NonEmptyTrees(_)
NonEmptyTrees(dir) ==
    IF Len(dir) = 0 THEN <<>>
    ELSE SelectSeq(FirstOccurrences(Head(dir), {}), LAMBDA t : t \notin wr_empty)
           \o NonEmptyTrees(Tail(dir))

\* some configured process has a table that is neither empty nor unreadable
SomeTable == \E p \in Whitelist : Len(read_tree(rt_dir[p])) > 0

\* ---- C6 (as stated): an unrecognised enum value raises an immediate
\* ValueError naming the option: every call of read_trees with an
\* unrecognised negative_weight_treatment and every call of write_root with
\* an unrecognised data ends in that ValueError, raised before any source
\* table is processed and before any histogram is written, whatever the
\* input directory holds.
C6_ImmediateValueError ==
    /\ (RtEnded /\ BadTreatment) =>
         (rt_pc = "ValueError" /\ rt_sig_dfs = <<>> /\ rt_bkg_dfs = <<>>)
    /\ (WrEnded /\ BadData) => (wr_pc = "ValueError_data" /\ wr_fo = <<>>)

\* ---- C6 (amended): an unrecognised enum value raises a fatal ValueError
\* naming the option and its value, but not immediately. read_trees raises
\* it when its loop reaches the first table of a configured process that is
\* neither empty nor unreadable: after that table has been read, before any
\* table is kept; when the directory holds no such table the check is not
\* reached and the call ends in the ValueError of pd.concat instead.
\* write_root raises it after the histogram of every non-empty tree has been
\* written to the output file and before a channel-level histogram is
\* written. A recognised value never raises it.
C6_LateValueError ==
    /\ (RtEnded /\ BadTreatment) =>
         /\ rt_pc = (IF SomeTable THEN "ValueError" ELSE "ValueError_concat")
         /\ rt_sig_dfs = <<>> /\ rt_bkg_dfs = <<>> /\ rt_out = <<>>
         /\ rt_pc = "ValueError" =>
              /\ \E p \in rt_read : Len(read_tree(rt_dir[p])) > 0
              /\ Cardinality({p \in rt_read : Len(read_tree(rt_dir[p])) > 0}) = 1
    /\ BadTreatment => rt_pc \notin {"balance", "label"}
    /\ (rt_pc = "ValueError") => BadTreatment
    /\ (WrEnded /\ BadData) =>
         /\ wr_pc = "ValueError_data"
         /\ wr_files = <<>> /\ wr_keys = <<>>
         /\ Len(wr_fo) = Len(NonEmptyTrees(wr_dir))
         /\ \A i \in 1..Len(wr_fo) :
               /\ wr_fo[i].name = format_TH1_name(NonEmptyTrees(wr_dir)[i],
                                                  wr_combine, wr_channel)
               /\ wr_fo[i].name # ChannelName(wr_channel, wr_combine)
    /\ (wr_pc = "ValueError_data") => BadData

\* write_root was given an unrecognised data option and raised after it
\* had written two histograms
C6_Witness ==
    /\ wr_pc = "ValueError_data"
    /\ BadData
    /\ Len(wr_fo) >= 2

\* ---- C7: after read_config, for every recognised key - the top-level keys
\* and each root_out sub-option - the settings map holds the user's value
\* when the user's file gives one and the default otherwise; no default is
\* lost because the user gave another key or only some of the sub-options.
C7_DefaultsOverlaid ==
    cf_pc = "returned" =>
      /\ \A k \in TopKeys :
           cfg.top[k] = (IF k \in cf_loaded.top THEN "user" ELSE "default")
      /\ \A k \in RootOutKeys :
           /\ k \in DOMAIN cfg.root_out
           /\ cfg.root_out[k] =
                (IF cf_loaded.has_root_out /\ k \in cf_loaded.root_out
                 THEN "user" ELSE "default")

\* ---- C8: empty or unreadable source tables are skipped silently and never
\* cause an error: such a table contributes no rows and no histogram, and
\* the call completes without raising, also when every signal table, or
\* every background table, or every table of the pseudo-data pool is empty
\* or unreadable.
C8_EmptyTablesSkipped ==
    /\ ~BadTreatment => rt_pc # "ValueError_concat"
    /\ ~BadData => wr_pc # "ValueError_concat"
    /\ rt_pc = "returned" =>
         \A i \in 1..Len(rt_out) : Len(read_tree(rt_dir[rt_out[i].Process])) > 0
    /\ wr_pc = "done" => Len(wr_fo) = Len(NonEmptyTrees(wr_dir)) + 1

\* the aggregate histogram of the pseudo-data pool
PoolHistogram ==
    LET pool == Concat(wr_pseudo_dfs)
    IN  col_to_TH1(Col(pool, "MVA"), WeightsOf(Col(pool, "EvtWeight")), S_MVA, Bins)

\* ---- C9: write_root, channel-level histogram: with data == "empty" the
\* written channel-level histogram has no content; with data == "poisson"
\* the call completes and every bin of the written channel-level histogram
\* is a Poisson sample of the same bin of the pool's aggregate histogram,
\* sign preserved (>= 0 for a bin >= 0, <= 0 for a negative bin). Exactly
\* one channel-level histogram is written, after all per-tree histograms.
C9_ChannelHistogram ==
    /\ (WrEnded /\ wr_data = "empty") =>
         /\ wr_pc = "done"
         /\ wr_fo[Len(wr_fo)].contents = <<>>
    /\ (WrEnded /\ wr_data = "poisson" /\ wr_pseudo_dfs # <<>>) =>
         /\ wr_pc = "done"
         /\ \A b \in 1..Bins :
               LET mean == PoolHistogram.contents[b]
                   got  == wr_fo[Len(wr_fo)].contents[b]
               IN  /\ GreaterEq(mean, Zero) => GreaterEq(got, Zero)
                   /\ Less(mean, Zero) => GreaterEq(Zero, got)
    /\ wr_pc = "done" =>
         /\ wr_fo[Len(wr_fo)].name = ChannelName(wr_channel, wr_combine)
         /\ \A i \in 1..(Len(wr_fo) - 1) :
               wr_fo[i].name # ChannelName(wr_channel, wr_combine)

\* a tree is a systematic variation, or holds labeled data
IsSystematic(tree) == Contains(tree, S_plus) \/ Contains(tree, S_minus)
IsLabeledData(tree) == EndsWith(tree, S_DataEG) \/ EndsWith(tree, S_DataMu)

\* the rows write_root keeps of a tree: those left by the NaN-weight drop
KeptRows(tree) == HandleNan(WithMVA(EventsOf(tree)), wr_drop_nan)

\* ---- C10: write_root pseudo-data pool membership: a non-empty tree's rows
\* are added to the pool if and only if the tree is neither a systematic
\* variation (its name contains "plus" or "minus") nor a labeled-data tree;
\* no labeled-data tree (DataEG or DataMu) enters the pool, for any channel,
\* and the rows added are those remaining after the configured NaN-weight
\* drop.
C10_PoolMembership ==
    WrEnded =>
      LET pooled == SelectSeq(NonEmptyTrees(wr_dir),
                              LAMBDA t : ~IsSystematic(t) /\ ~IsLabeledData(t))
      IN  wr_pseudo_dfs = [i \in 1..Len(pooled) |-> KeptRows(pooled[i])]

\* the part of the input directory the loop of write_root has gone through:
\* the files opened so far, the open one up to the key the loop is at
ProcessedDir ==
    LET opened == Len(wr_dir) - Len(wr_files)
    IN  [f \in 1..opened |->
           IF f < opened THEN wr_dir[f]
           ELSE Slice(wr_dir[f], 1, Len(wr_dir[f]) - Len(wr_keys))]

\* the per-tree histograms of the output file (the channel-level one, which
\* a completed call writes last, left out)
TreeHistograms ==
    IF wr_pc = "done" THEN Slice(wr_fo, 1, Len(wr_fo) - 1) ELSE wr_fo

\* the histogram write_root writes for a tree
TreeHistogram(tree) ==
    col_to_TH1(Col(KeptRows(tree), "MVA"),
               WeightsOf(Col(KeptRows(tree), "EvtWeight")),
               format_TH1_name(tree, wr_combine, wr_channel), Bins)

\* the number of histograms the first f files of a directory account for
HistogramsBefore(dir, f) == Len(NonEmptyTrees(Slice(dir, 1, f)))

\* ---- C11: write_root deduplication: within one source file each distinct
\* tree name is processed (histogram written, pool candidate) at most once,
\* at its first occurrence in key order; a later key of the same file with a
\* name already seen produces no histogram and no pool entry, so each
\* distinct non-empty tree of a file yields exactly one written histogram.
C11_Deduplication ==
    wr_pc \in {"loop", "done", "ValueError_data", "ValueError_concat", "TypeError"} =>
      LET trees == NonEmptyTrees(ProcessedDir)
          hists == TreeHistograms
          pooled == SelectSeq(trees,
                      LAMBDA t : ~ExcludedFromPseudodata(t, wr_channel))
      IN  \* one histogram per first occurrence, in key order
          /\ Len(hists) = Len(trees)
          /\ \A i \in 1..Len(hists) : hists[i] = TreeHistogram(trees[i])
          \* one pool entry per first occurrence of a tree the pool takes
          /\ wr_pseudo_dfs = [i \in 1..Len(pooled) |-> KeptRows(pooled[i])]
          \* each distinct non-empty tree of a file: exactly one histogram
          /\ \A f \in 1..Len(ProcessedDir) :
               \A k \in 1..Len(ProcessedDir[f]) :
                  LET t == ProcessedDir[f][k]
                      first == HistogramsBefore(ProcessedDir, f - 1) + 1
                      last  == HistogramsBefore(ProcessedDir, f)
                  IN  Cardinality({i \in first..last :
                                     hists[i].name = format_TH1_name(t, wr_combine,
                                                                     wr_channel)})
                        = (IF t \in wr_empty THEN 0 ELSE 1)

\* write_root has completed on a directory whose first file lists a
\* non-empty tree, another tree, and the first tree again
C11_Witness ==
    /\ wr_pc = "done"
    /\ Len(wr_dir[1]) = 3
    /\ wr_dir[1][1] = wr_dir[1][3]
    /\ wr_dir[1][1] # wr_dir[1][2]
    /\ wr_dir[1][1] \notin wr_empty
    /\ Len(wr_fo) = Len(NonEmptyTrees(wr_dir)) + 1

====
